---- MODULE Spec2Model ----
(***************************************************************************)
(* Trainer.train_and_evaluate of train.py as a state machine: the setup    *)
(* (optimizer, optional checkpoint restore, StepLR schedule and its        *)
(* synthetic resume steps), the epoch loop, the batch loop with its        *)
(* periodic logging / validation / best-checkpoint block, and the epoch    *)
(* end.  Each action is one statement group of the method; pc is the       *)
(* position of the single control thread.  Spec lets every step of a       *)
(* batch complete or raise; SpecAsWritten is the method with the print of  *)
(* line 99, which raises whenever it runs.                                 *)
(***************************************************************************)
EXTENDS Integers, Sequences, FiniteSets, TLC

\* ---------------------------------------------------------------- bounds
MaxStartEpoch == 3  \* config['start_epoch'] ranges over 0..MaxStartEpoch
MaxRunEpochs  == 2  \* config['epochs'] ranges over 0..start_epoch + MaxRunEpochs
MaxBatches  == 2    \* len(train_dataloader) ranges over 0..MaxBatches
MaxInterval == 2    \* both log intervals range over 1..MaxInterval
MaxStepSize == 2    \* config['lr_scheduler_step_size'] ranges over 1..MaxStepSize
MaxRmse     == 2    \* RMSE values range over 0..MaxRmse

\* ------------------------------------------------------ program constants
BatchSize == 2      \* config['batch_size'] = images.shape[0] of every batch

\* best_rmse = 9e20 / best_test_rmse = 9e20: the sentinel is the top of the
\* modelled RMSE range, so a drawn RMSE is either below it or equal to it.
Sentinel == MaxRmse

RmseValues == 0..MaxRmse
\* combined_loss / mean_l2_loss results and time_end - time_start: the values
\* take part in no branch of the method, every batch contributes one unit
LossValues == {1}
IterationTimes == {1}

VARIABLES
  config,          \* the config mapping (immutable during the run)
  num_batches,     \* len(train_dataloader)
  local,           \* the local argument: restore a checkpoint first
  checkpoint_file, \* the optimizer state held by the checkpoint file
  pc,              \* position of the control thread
  epoch,           \* loop variable of the epoch loop
  iteration,       \* loop variable of enumerate(train_dataloader)
  optimizer,       \* [lr]: lr = config['lr'] * 0.1^lr
  lr_scheduler,    \* [built, last_epoch]
  model_params,    \* number of optimizer.step() calls applied to the parameters
  predictions,     \* model_params value that produced the current predictions
  best_rmse, is_best, best_test_rmse,
  wandb_step,
  accumulated_per_pixel_loss, accumulated_feature_loss, accumulated_iteration_time,
  metrics, test_metrics,   \* the rmse entries of the two metrics mappings
  eta_factor,      \* num_batches - iteration of line 95
  \* ---- observation of the calls made to the collaborators
  calls,           \* calls made in the current iteration, in order
  last_log_step, log_calls,        \* step of the latest wandb.log call, number of calls
  checkpoints,     \* save_checkpoint calls of the run, in order
  epoch_checkpoints,               \* epoch_index of the save_epoch calls, in order
  epoch_batches,   \* forward/backward/optimizer-step counts of the current epoch
  loop_lr_steps,   \* lr_scheduler.step() calls made at line 133
  min_rmse, min_test_rmse,         \* least RMSE returned so far (the sentinel when none is below it)
  acc_epochs,      \* epochs whose batches were fed to the loss accumulators
  read_empty,      \* a running average was read with count 0
  rmse_is_new_min, \* the latest training RMSE is below all earlier ones and the sentinel
  last_save,       \* is_best / train arguments of the latest save_checkpoint call
  raised           \* an exception left train_and_evaluate at pc

vars == <<config, num_batches, local, checkpoint_file, pc, epoch, iteration,
          optimizer, lr_scheduler, model_params, predictions,
          best_rmse, is_best, best_test_rmse, wandb_step,
          accumulated_per_pixel_loss, accumulated_feature_loss,
          accumulated_iteration_time, metrics, test_metrics, eta_factor,
          calls, last_log_step, log_calls, checkpoints, epoch_checkpoints,
          epoch_batches, loop_lr_steps, min_rmse, min_test_rmse,
          acc_epochs, read_empty, rmse_is_new_min, last_save, raised>>

\* ------------------------------------------------------------- helpers
Min(S) == CHOOSE x \in S : \A y \in S : x <= y

Count(s, e) == Cardinality({i \in 1..Len(s) : s[i] = e})

\* ------------------------------------------------------ RunningAverage
\* utils.RunningAverage: (total, steps), update(value, weight), read.
RunningAverage == [total |-> 0, steps |-> 0]

Update(acc, value, weight) ==
  [total |-> acc.total + value * weight, steps |-> acc.steps + weight]

\* the read divides total by steps; with steps = 0 it has no value
ReadIsEmpty(acc) == acc.steps = 0

\* ------------------------------------------------------------- StepLR
\* torch.optim.lr_scheduler.StepLR(optimizer, step_size, gamma = 0.1): the
\* schedule keeps last_epoch and rewrites the optimizer's lr from the
\* optimizer's current lr (multiplying by gamma when last_epoch reaches a
\* multiple of step_size).  lr is held as the number of gamma factors.
StepLRGetLr(lr, last_epoch, step_size) ==
  IF last_epoch = 0 \/ last_epoch % step_size # 0 THEN lr ELSE lr + 1

\* constructing the schedule performs the initial step: last_epoch = 0 and
\* the optimizer keeps the lr it has.
StepLRBuild(opt, step_size) ==
  [sched |-> [built |-> TRUE, last_epoch |-> 0],
   opt   |-> [lr |-> StepLRGetLr(opt.lr, 0, step_size)]]

SchedulerStep(sched, opt, step_size) ==
  [sched |-> [built |-> TRUE, last_epoch |-> sched.last_epoch + 1],
   opt   |-> [lr |-> StepLRGetLr(opt.lr, sched.last_epoch + 1, step_size)]]

\* the optimizer lr of a run from epoch 0 that is never interrupted, after
\* n real epochs: Adam built with config lr, the schedule built, n steps.
RECURSIVE StepTimes(_, _, _, _)
StepTimes(sched, opt, step_size, n) ==
  IF n = 0 THEN [sched |-> sched, opt |-> opt]
  ELSE LET r == SchedulerStep(sched, opt, step_size)
       IN  StepTimes(r.sched, r.opt, step_size, n - 1)

Adam == [lr |-> 0]

UninterruptedLr(n, step_size) ==
  LET b == StepLRBuild(Adam, step_size)
  IN  StepTimes(b.sched, b.opt, step_size, n).opt.lr

\* load_checkpoint(checkpoint_file, model, optimizer): the optimizer state
\* of the file replaces the state of the freshly built optimizer.
load_checkpoint(file, opt) == [lr |-> file.lr]

\* ---------------------------------------------------------------- Init
Configs ==
  [start_epoch : 0..MaxStartEpoch, epochs : 0..(MaxStartEpoch + MaxRunEpochs),
   training_loss_log_interval : 1..MaxInterval,
   other_metrics_log_interval : 1..MaxInterval,
   lr_scheduler_step_size : 1..MaxStepSize]

Init ==
  /\ config \in Configs
  /\ config.epochs <= config.start_epoch + MaxRunEpochs
  /\ num_batches \in 0..MaxBatches
  /\ local \in BOOLEAN
  \* the file is the epoch checkpoint an uninterrupted earlier run with the
  \* same config wrote for epoch start_epoch - 1
  /\ checkpoint_file =
       [lr |-> UninterruptedLr(config.start_epoch, config.lr_scheduler_step_size)]
  /\ pc = "load"
  /\ epoch = config.start_epoch
  /\ iteration = 0
  /\ optimizer = Adam
  /\ lr_scheduler = [built |-> FALSE, last_epoch |-> -1]
  /\ model_params = 0
  /\ predictions = 0
  /\ best_rmse = Sentinel
  /\ is_best = FALSE
  /\ best_test_rmse = Sentinel
  /\ wandb_step = 0
  /\ accumulated_per_pixel_loss = RunningAverage
  /\ accumulated_feature_loss = RunningAverage
  /\ accumulated_iteration_time = RunningAverage
  /\ metrics = Sentinel
  /\ test_metrics = Sentinel
  /\ eta_factor = 0
  /\ calls = <<>>
  /\ last_log_step = 0
  /\ log_calls = 0
  /\ checkpoints = <<>>
  /\ epoch_checkpoints = <<>>
  /\ epoch_batches = [forward |-> 0, backward |-> 0, step |-> 0]
  /\ loop_lr_steps = 0
  /\ min_rmse = Sentinel
  /\ min_test_rmse = Sentinel
  /\ acc_epochs = {}
  /\ read_empty = FALSE
  /\ rmse_is_new_min = FALSE
  /\ last_save = [is_best |-> FALSE, train |-> FALSE, new_min |-> FALSE, saved |-> FALSE]
  /\ raised = FALSE

cfgVars == <<config, num_batches, local, checkpoint_file>>
bestVars == <<best_rmse, is_best, best_test_rmse>>
accVars == <<accumulated_per_pixel_loss, accumulated_feature_loss,
             accumulated_iteration_time, acc_epochs, read_empty, eta_factor>>
logVars == <<last_log_step, log_calls>>
obsVars == <<checkpoints, epoch_checkpoints, epoch_batches, loop_lr_steps,
             min_rmse, min_test_rmse, rmse_is_new_min, last_save, raised>>

\* --------------------------------------------------------------- setup
\* lines 48-51
LoadCheckpoint ==
  /\ pc = "load" /\ ~raised
  /\ optimizer' = IF local THEN load_checkpoint(checkpoint_file, optimizer)
                  ELSE optimizer
  /\ pc' = "schedule"
  /\ UNCHANGED <<cfgVars, epoch, iteration, lr_scheduler, model_params,
                 predictions, bestVars, wandb_step, accVars, metrics,
                 test_metrics, calls, logVars, obsVars>>

\* line 53
BuildScheduler ==
  /\ pc = "schedule" /\ ~raised
  /\ LET b == StepLRBuild(optimizer, config.lr_scheduler_step_size)
     IN  /\ lr_scheduler' = b.sched
         /\ optimizer' = b.opt
  /\ pc' = "resume"
  /\ UNCHANGED <<cfgVars, epoch, iteration, model_params,
                 predictions, bestVars, wandb_step, accVars, metrics,
                 test_metrics, calls, logVars, obsVars>>

\* lines 54-55: one pass of "for i in range(config['start_epoch'])"
ResumeStep ==
  /\ pc = "resume" /\ ~raised
  /\ lr_scheduler.last_epoch < config.start_epoch
  /\ LET r == SchedulerStep(lr_scheduler, optimizer, config.lr_scheduler_step_size)
     IN  /\ lr_scheduler' = r.sched
         /\ optimizer' = r.opt
  /\ UNCHANGED <<cfgVars, pc, epoch, iteration, model_params,
                 predictions, bestVars, wandb_step, accVars, metrics,
                 test_metrics, calls, logVars, obsVars>>

InitialWandbStep(start_epoch, batches) == start_epoch * batches - 1

\* lines 56-62: the resume loop is over; the step counter and the three
\* running averages are created, once for the run
StartTraining ==
  /\ pc = "resume" /\ ~raised
  /\ lr_scheduler.last_epoch = config.start_epoch
  /\ wandb_step' = InitialWandbStep(config.start_epoch, num_batches)
  /\ accumulated_per_pixel_loss' = RunningAverage
  /\ accumulated_feature_loss' = RunningAverage
  /\ accumulated_iteration_time' = RunningAverage
  /\ acc_epochs' = {}
  /\ pc' = "epoch"
  /\ UNCHANGED <<cfgVars, epoch, iteration, optimizer, lr_scheduler,
                 model_params, predictions, bestVars, read_empty, eta_factor,
                 metrics, test_metrics, calls, logVars, obsVars>>

\* ---------------------------------------------------------- epoch loop
NextWandbStepBackwards(step) == step - 1

NextWandbStep(step) == step + 1

EpochsRemainInclusive(e, epochs) == e <= epochs

\* line 63: range(start_epoch, epochs) has a next value
EpochsRemain(e, epochs) == e < epochs

\* lines 63-65: the next epoch of range(start_epoch, epochs) begins
EpochStart ==
  /\ pc = "epoch" /\ ~raised
  /\ EpochsRemain(epoch, config.epochs)
  /\ wandb_step' = NextWandbStep(wandb_step)
  /\ iteration' = 0
  /\ epoch_batches' = [forward |-> 0, backward |-> 0, step |-> 0]
  /\ pc' = "batch"
  /\ UNCHANGED <<cfgVars, epoch, optimizer, lr_scheduler, model_params,
                 predictions, bestVars, accVars, metrics, test_metrics, calls,
                 logVars, checkpoints, epoch_checkpoints, loop_lr_steps,
                 min_rmse, min_test_rmse, rmse_is_new_min, last_save, raised>>

\* line 63: range(start_epoch, epochs) is exhausted, the method returns
Finish ==
  /\ pc = "epoch" /\ ~raised
  /\ ~EpochsRemain(epoch, config.epochs)
  /\ pc' = "done"
  /\ UNCHANGED <<cfgVars, epoch, iteration, optimizer, lr_scheduler,
                 model_params, predictions, bestVars, wandb_step, accVars,
                 metrics, test_metrics, calls, logVars, obsVars>>

DataloaderExhaustedEarly(it, batches) == it + 1 >= batches

\* line 66: enumerate(train_dataloader) has yielded all its batches
DataloaderExhausted(it, batches) == it >= batches

NoSave == [is_best |-> FALSE, train |-> FALSE, new_min |-> FALSE, saved |-> FALSE]

\* line 66: the dataloader yields the next batch; the observation of the
\* iteration's calls starts empty
NextBatch ==
  /\ pc = "batch" /\ ~raised
  /\ ~DataloaderExhausted(iteration, num_batches)
  /\ calls' = <<>>
  /\ last_save' = NoSave
  /\ rmse_is_new_min' = FALSE
  /\ pc' = "forward"
  /\ UNCHANGED <<cfgVars, epoch, iteration, optimizer, lr_scheduler,
                 model_params, predictions, bestVars, wandb_step, accVars,
                 metrics, test_metrics, logVars, checkpoints,
                 epoch_checkpoints, epoch_batches, loop_lr_steps, min_rmse,
                 min_test_rmse, raised>>

\* line 66: the dataloader is exhausted
BatchesDone ==
  /\ pc = "batch" /\ ~raised
  /\ DataloaderExhausted(iteration, num_batches)
  /\ pc' = "epoch_end"
  /\ UNCHANGED <<cfgVars, epoch, iteration, optimizer, lr_scheduler,
                 model_params, predictions, bestVars, wandb_step, accVars,
                 metrics, test_metrics, calls, logVars, obsVars>>

AccumulateDropped(acc, value, images) == acc

\* lines 84 and 87: accumulated_..._loss.update(loss, images.shape[0])
Accumulate(acc, value, images) == Update(acc, value, images)

\* lines 67-87: forward pass, the two losses and their running averages
Forward ==
  /\ pc = "forward" /\ ~raised
  /\ \E per_pixel_loss \in LossValues, feature_loss \in LossValues :
       /\ accumulated_per_pixel_loss' =
            Accumulate(accumulated_per_pixel_loss, per_pixel_loss, BatchSize)
       /\ accumulated_feature_loss' =
            Accumulate(accumulated_feature_loss, feature_loss, BatchSize)
  /\ predictions' = model_params
  /\ acc_epochs' = acc_epochs \cup {epoch}
  /\ calls' = Append(calls, "forward")
  /\ epoch_batches' = [epoch_batches EXCEPT !.forward = @ + 1]
  /\ pc' = "backward"
  /\ UNCHANGED <<cfgVars, epoch, iteration, optimizer, lr_scheduler,
                 model_params, bestVars, wandb_step, accumulated_iteration_time,
                 read_empty, eta_factor, metrics, test_metrics, logVars,
                 checkpoints, epoch_checkpoints, loop_lr_steps, min_rmse,
                 min_test_rmse, rmse_is_new_min, last_save, raised>>

\* lines 89-90
Backward ==
  /\ pc = "backward" /\ ~raised
  /\ calls' = Append(calls, "backward")
  /\ epoch_batches' = [epoch_batches EXCEPT !.backward = @ + 1]
  /\ pc' = "optimizer"
  /\ UNCHANGED <<cfgVars, epoch, iteration, optimizer, lr_scheduler,
                 model_params, predictions, bestVars, wandb_step, accVars,
                 metrics, test_metrics, logVars, checkpoints,
                 epoch_checkpoints, loop_lr_steps, min_rmse, min_test_rmse,
                 rmse_is_new_min, last_save, raised>>

ParamsNotStepped(params) == params

\* optimizer.step() produces the next parameters
ParamsAfterStep(params) == params + 1

\* line 91
OptimizerStep ==
  /\ pc = "optimizer" /\ ~raised
  /\ model_params' = ParamsAfterStep(model_params)
  /\ calls' = Append(calls, "optimizer.step")
  /\ epoch_batches' = [epoch_batches EXCEPT !.step = @ + 1]
  /\ pc' = "time"
  /\ UNCHANGED <<cfgVars, epoch, iteration, optimizer, lr_scheduler,
                 predictions, bestVars, wandb_step, accVars,
                 metrics, test_metrics, logVars, checkpoints,
                 epoch_checkpoints, loop_lr_steps, min_rmse, min_test_rmse,
                 rmse_is_new_min, last_save, raised>>

RemainingFactor(batches, it) == batches - it

\* lines 93-95: iteration time and ETA
IterationTime ==
  /\ pc = "time" /\ ~raised
  /\ \E elapsed \in IterationTimes :
       LET acc == Update(accumulated_iteration_time, elapsed, 1)
       IN  /\ accumulated_iteration_time' = acc
           /\ read_empty' = (read_empty \/ ReadIsEmpty(acc))
  /\ eta_factor' = RemainingFactor(num_batches, iteration)
  /\ pc' = "loss_log"
  /\ UNCHANGED <<cfgVars, epoch, iteration, optimizer, lr_scheduler,
                 model_params, predictions, bestVars, wandb_step,
                 accumulated_per_pixel_loss, accumulated_feature_loss,
                 acc_epochs, metrics, test_metrics, calls, logVars, obsVars>>

LossLogDueOneBased(it, interval) == (it + 1) % interval = 0

LossLogDue(it, interval) == it % interval = 0

\* lines 97-101, the two scalar logs; the console output of lines 98-99 is
\* not part of this action (a failure of it is a Raise)
LogLosses ==
  /\ pc = "loss_log" /\ ~raised
  /\ IF LossLogDue(iteration, config.training_loss_log_interval)
       THEN /\ read_empty' = (read_empty
                                \/ ReadIsEmpty(accumulated_per_pixel_loss)
                                \/ ReadIsEmpty(accumulated_feature_loss))
            /\ calls' = calls \o <<"log Average per-pixel loss",
                                   "log Average feature loss">>
            /\ log_calls' = log_calls + 2
            /\ last_log_step' = wandb_step
       ELSE UNCHANGED <<read_empty, calls, logVars>>
  /\ pc' = "metrics"
  /\ UNCHANGED <<cfgVars, epoch, iteration, optimizer, lr_scheduler,
                 model_params, predictions, bestVars, wandb_step,
                 accumulated_per_pixel_loss, accumulated_feature_loss,
                 accumulated_iteration_time, acc_epochs, eta_factor,
                 metrics, test_metrics, obsVars>>

\* str % tuple (line 99): every value is consumed by one conversion of the
\* format, else "TypeError: not all arguments converted during string
\* formatting" is raised
FormatConverts(conversions, values) == conversions = values

\* line 99: the format holds %d %d %d %f and is given epoch, iteration,
\* num_batches and the two running averages
LossPrintConversions == 4
LossPrintValues == 5

\* lines 97-101 as written: the print of line 99 evaluates its values (two
\* reads of the running averages), formats them and raises before line 100
LogLossesAsWritten ==
  IF /\ LossLogDue(iteration, config.training_loss_log_interval)
     /\ ~FormatConverts(LossPrintConversions, LossPrintValues)
    THEN /\ pc = "loss_log" /\ ~raised
         /\ read_empty' = (read_empty
                             \/ ReadIsEmpty(accumulated_per_pixel_loss)
                             \/ ReadIsEmpty(accumulated_feature_loss))
         /\ calls' = Append(calls, "print raises TypeError")
         /\ raised' = TRUE
         /\ UNCHANGED <<cfgVars, pc, epoch, iteration, optimizer, lr_scheduler,
                        model_params, predictions, bestVars, wandb_step,
                        accumulated_per_pixel_loss, accumulated_feature_loss,
                        accumulated_iteration_time, acc_epochs, eta_factor,
                        metrics, test_metrics, logVars, checkpoints,
                        epoch_checkpoints, epoch_batches, loop_lr_steps,
                        min_rmse, min_test_rmse, rmse_is_new_min, last_save>>
    ELSE LogLosses

MetricsDueOneBased(it, interval) == (it + 1) % interval = 0

MetricsDue(it, interval) == it % interval = 0

\* write_metrics (lines 139-145): one wandb.log per key of the mapping
write_metrics(step, train) ==
  IF train THEN <<"log Train rmse">> ELSE <<"log Validation rmse">>

\* compare_predictions (lines 147-156): four image grids
compare_predictions ==
  <<"log Sample Validation images", "log Sample Validation depths",
    "log Sample Validation predictions", "log Sample Validation differences">>

\* lines 103-107: metrics of the training batch
TrainMetrics ==
  /\ pc = "metrics" /\ ~raised
  /\ MetricsDue(iteration, config.other_metrics_log_interval)
  /\ read_empty' = (read_empty \/ ReadIsEmpty(accumulated_iteration_time))
  /\ \E rmse \in RmseValues :
       /\ metrics' = rmse
       /\ rmse_is_new_min' = (rmse < min_rmse)
       /\ min_rmse' = Min({min_rmse, rmse})
  /\ calls' = calls \o <<"evaluate_predictions">> \o write_metrics(wandb_step, TRUE)
  /\ log_calls' = log_calls + 1
  /\ last_log_step' = wandb_step
  /\ pc' = "validate"
  /\ UNCHANGED <<cfgVars, epoch, iteration, optimizer, lr_scheduler,
                 model_params, predictions, bestVars, wandb_step,
                 accumulated_per_pixel_loss, accumulated_feature_loss,
                 accumulated_iteration_time, acc_epochs, eta_factor,
                 test_metrics, checkpoints, epoch_checkpoints, epoch_batches,
                 loop_lr_steps, min_test_rmse, last_save, raised>>

\* line 103 false: the block is skipped, enumerate advances
SkipMetrics ==
  /\ pc = "metrics" /\ ~raised
  /\ ~MetricsDue(iteration, config.other_metrics_log_interval)
  /\ iteration' = iteration + 1
  /\ pc' = "batch"
  /\ UNCHANGED <<cfgVars, epoch, optimizer, lr_scheduler,
                 model_params, predictions, bestVars, wandb_step, accVars,
                 metrics, test_metrics, calls, logVars, obsVars>>

\* lines 108-111: validation pass on one batch and its logging
Validate ==
  /\ pc = "validate" /\ ~raised
  /\ \E rmse \in RmseValues :
       /\ test_metrics' = rmse
       /\ min_test_rmse' = Min({min_test_rmse, rmse})
  /\ calls' = calls \o <<"evaluate">> \o compare_predictions
                \o <<"log Average Validation loss on random batch">>
                \o write_metrics(wandb_step, FALSE)
  /\ log_calls' = log_calls + 6
  /\ last_log_step' = wandb_step
  /\ pc' = "best"
  /\ UNCHANGED <<cfgVars, epoch, iteration, optimizer, lr_scheduler,
                 model_params, predictions, bestVars, wandb_step, accVars,
                 metrics, checkpoints, epoch_checkpoints, epoch_batches,
                 loop_lr_steps, min_rmse, rmse_is_new_min, last_save, raised>>

NewBestFlipped(rmse, best) == rmse > best

NewBest(rmse, best) == rmse < best

\* lines 113-116
UpdateBest ==
  /\ pc = "best" /\ ~raised
  /\ IF NewBest(metrics, best_rmse)
       THEN /\ best_rmse' = metrics
            /\ is_best' = TRUE
       ELSE UNCHANGED <<best_rmse, is_best>>
  /\ pc' = "save"
  /\ UNCHANGED <<cfgVars, epoch, iteration, optimizer, lr_scheduler,
                 model_params, predictions, best_test_rmse, wandb_step,
                 accVars, metrics, test_metrics, calls, logVars, obsVars>>

\* the 'iteration' entry of the saved state
CheckpointIteration(step) == step

\* lines 118-122
SaveCheckpoint ==
  /\ pc = "save" /\ ~raised
  /\ checkpoints' = Append(checkpoints,
                           [iteration  |-> CheckpointIteration(wandb_step),
                            state_dict |-> model_params,
                            predictions |-> predictions,
                            at         |-> <<epoch, iteration>>])
  /\ last_save' = [is_best |-> is_best, train |-> TRUE,
                   new_min |-> rmse_is_new_min, saved |-> TRUE]
  /\ calls' = Append(calls, "save_checkpoint")
  /\ pc' = "best_test"
  /\ UNCHANGED <<cfgVars, epoch, iteration, optimizer, lr_scheduler,
                 model_params, predictions, bestVars, wandb_step, accVars,
                 metrics, test_metrics, logVars, epoch_checkpoints,
                 epoch_batches, loop_lr_steps, min_rmse, min_test_rmse,
                 rmse_is_new_min, raised>>

NewBestTestOrWorse(rmse, best) == rmse # best

NewBestTest(rmse, best) == rmse < best

\* lines 124-126
UpdateBestTest ==
  /\ pc = "best_test" /\ ~raised
  /\ best_test_rmse' = IF NewBestTest(test_metrics, best_test_rmse)
                         THEN test_metrics ELSE best_test_rmse
  /\ pc' = "reset"
  /\ UNCHANGED <<cfgVars, epoch, iteration, optimizer, lr_scheduler,
                 model_params, predictions, best_rmse, is_best, wandb_step,
                 accVars, metrics, test_metrics, calls, logVars, obsVars>>

IsBestKept(flag) == flag

IsBestAfterBlock(flag) == FALSE

\* line 128, then enumerate advances.  metrics and test_metrics are rebound
\* at lines 106 and 108 before they are read again: they are dead here
ResetIsBest ==
  /\ pc = "reset" /\ ~raised
  /\ is_best' = IsBestAfterBlock(is_best)
  /\ iteration' = iteration + 1
  /\ metrics' = Sentinel
  /\ test_metrics' = Sentinel
  /\ pc' = "batch"
  /\ UNCHANGED <<cfgVars, epoch, optimizer, lr_scheduler,
                 model_params, predictions, best_rmse, best_test_rmse,
                 wandb_step, accVars, calls, logVars, obsVars>>

\* lines 131-134
EpochEnd ==
  /\ pc = "epoch_end" /\ ~raised
  /\ LET r == SchedulerStep(lr_scheduler, optimizer, config.lr_scheduler_step_size)
     IN  /\ lr_scheduler' = r.sched
         /\ optimizer' = r.opt
  /\ loop_lr_steps' = loop_lr_steps + 1
  /\ pc' = "save_epoch"
  /\ UNCHANGED <<cfgVars, epoch, iteration, model_params, predictions,
                 bestVars, wandb_step, accVars, metrics, test_metrics, calls,
                 logVars, checkpoints, epoch_checkpoints, epoch_batches,
                 min_rmse, min_test_rmse, rmse_is_new_min, last_save, raised>>

EpochIndexOneBased(e) == e + 1

EpochIndex(e) == e

\* lines 136-137, then range(...) advances
SaveEpoch ==
  /\ pc = "save_epoch" /\ ~raised
  /\ epoch_checkpoints' = Append(epoch_checkpoints,
                                 [epoch_index |-> EpochIndex(epoch),
                                  state_dict  |-> model_params,
                                  lr_steps    |-> loop_lr_steps])
  /\ epoch' = epoch + 1
  /\ pc' = "epoch"
  /\ UNCHANGED <<cfgVars, iteration, optimizer, lr_scheduler, model_params,
                 predictions, bestVars, wandb_step, accVars, metrics,
                 test_metrics, calls, logVars, checkpoints, epoch_batches,
                 loop_lr_steps, min_rmse, min_test_rmse, rmse_is_new_min,
                 last_save, raised>>

\* no statement of the loop is guarded by try/except: an exception raised by
\* a forward/backward pass, the validation, the logging or the checkpoint
\* I/O leaves the method where it is raised
LoopPcs == {"forward", "backward", "optimizer", "loss_log", "metrics",
            "validate", "save", "save_epoch"}

\* as Raise, with the epoch end run on the way out (a finally block)
RaiseWithFinally ==
  /\ pc \in LoopPcs /\ ~raised
  /\ raised' = TRUE
  /\ loop_lr_steps' = loop_lr_steps + 1
  /\ epoch_checkpoints' = Append(epoch_checkpoints,
                                 [epoch_index |-> epoch,
                                  state_dict  |-> model_params,
                                  lr_steps    |-> loop_lr_steps + 1])
  /\ UNCHANGED <<cfgVars, pc, epoch, iteration, optimizer, lr_scheduler,
                 model_params, predictions, bestVars, wandb_step, accVars,
                 metrics, test_metrics, calls, logVars, checkpoints,
                 epoch_batches, min_rmse, min_test_rmse, rmse_is_new_min,
                 last_save>>

Raise ==
  /\ pc \in LoopPcs /\ ~raised
  /\ raised' = TRUE
  /\ UNCHANGED <<cfgVars, pc, epoch, iteration, optimizer, lr_scheduler,
                 model_params, predictions, bestVars, wandb_step, accVars,
                 metrics, test_metrics, calls, logVars, checkpoints,
                 epoch_checkpoints, epoch_batches, loop_lr_steps, min_rmse,
                 min_test_rmse, rmse_is_new_min, last_save>>

Next ==
  \/ LoadCheckpoint
  \/ BuildScheduler
  \/ ResumeStep
  \/ StartTraining
  \/ EpochStart
  \/ Finish
  \/ NextBatch
  \/ BatchesDone
  \/ Forward
  \/ Backward
  \/ OptimizerStep
  \/ IterationTime
  \/ LogLosses
  \/ TrainMetrics
  \/ SkipMetrics
  \/ Validate
  \/ UpdateBest
  \/ SaveCheckpoint
  \/ UpdateBestTest
  \/ ResetIsBest
  \/ EpochEnd
  \/ SaveEpoch
  \/ Raise

Spec == Init /\ [][Next]_vars

\* The method as written.  Iteration 0 of an epoch is always due for the loss
\* log, whose print raises, so the first batch of a run is its last one and
\* lines 100-128 are never reached: the actions of that block are no step of
\* this specification.  Its behaviours are behaviours of Spec, where the same
\* exception is one of the outcomes Raise allows at "loss_log".
NextAsWritten ==
  \/ LoadCheckpoint
  \/ BuildScheduler
  \/ ResumeStep
  \/ StartTraining
  \/ EpochStart
  \/ Finish
  \/ NextBatch
  \/ BatchesDone
  \/ Forward
  \/ Backward
  \/ OptimizerStep
  \/ IterationTime
  \/ LogLossesAsWritten
  \/ EpochEnd
  \/ SaveEpoch
  \/ Raise

SpecAsWritten == Init /\ [][NextAsWritten]_vars

\* ------------------------------------------------------------ properties
InBlock == {"validate", "best", "save", "best_test", "reset"}

PerPixelLogs == Count(calls, "log Average per-pixel loss")
FeatureLogs == Count(calls, "log Average feature loss")

C3_ResumedLrMatchesUninterrupted ==
  (pc = "epoch" /\ loop_lr_steps = 0) =>
    /\ optimizer.lr = UninterruptedLr(config.start_epoch, config.lr_scheduler_step_size)
    /\ optimizer.lr = config.start_epoch \div config.lr_scheduler_step_size

LossLogOver ==
  \/ pc \in {"metrics"} \cup InBlock
  \/ Count(calls, "print raises TypeError") > 0

\* C6: every processed batch whose in-epoch index is a multiple of
\* training_loss_log_interval emits one scalar-log event for the average
\* per-pixel loss and one for the average feature loss (with interval 1:
\* every batch), and a batch with another index emits neither.
C6_LossLoggingCadence ==
  /\ LossLogOver =>
       /\ PerPixelLogs = (IF iteration % config.training_loss_log_interval = 0
                            THEN 1 ELSE 0)
       /\ FeatureLogs = PerPixelLogs
  /\ (pc \in {"forward", "backward", "optimizer", "time", "loss_log"}
        /\ ~LossLogOver) =>
       (PerPixelLogs = 0 /\ FeatureLogs = 0)

C9_EmptyTrainingSetFails ==
  num_batches = 0 =>
    /\ ~read_empty
    /\ loop_lr_steps = 0
    /\ epoch_checkpoints = <<>>
    /\ ~(pc = "done" /\ config.start_epoch < config.epochs)

BatchPcs == {"batch", "forward", "backward", "optimizer", "time", "loss_log",
             "metrics", "validate", "best", "save", "best_test", "reset"}

EpochsDone == epoch - config.start_epoch

Pos(seq, e) == CHOOSE i \in 1..Len(seq) : seq[i] = e

TrainingPhases == <<"forward", "backward", "optimizer.step">>

Evaluations == Count(calls, "evaluate")
Saves == Count(calls, "save_checkpoint")

Terminated == pc = "done" \/ raised

Max0(x) == IF x > 0 THEN x ELSE 0

\* the epochs range(start_epoch, epochs) holds
TrainedEpochs == Max0(config.epochs - config.start_epoch)

\* An upper bound on the steps the method still takes: steps left in the
\* iteration, iterations left in the epoch, epochs left in the run, and the
\* setup before the loop.
IterationCost == 14
EpochCost == IterationCost * num_batches + 20

StepsLeftInIteration ==
  CASE pc = "forward"   -> 13
    [] pc = "backward"  -> 12
    [] pc = "optimizer" -> 11
    [] pc = "time"      -> 10
    [] pc = "loss_log"  -> 9
    [] pc = "metrics"   -> 8
    [] pc = "validate"  -> 7
    [] pc = "best"      -> 6
    [] pc = "save"      -> 5
    [] pc = "best_test" -> 4
    [] pc = "reset"     -> 3
    [] OTHER            -> 0

StepsLeft ==
  IF Terminated THEN 0
  ELSE LET afterEpoch == EpochCost * Max0(config.epochs - epoch - 1) + 1
           afterSetup == EpochCost * TrainedEpochs + 2
       IN  CASE pc = "load"       -> afterSetup + config.start_epoch + 3
             [] pc = "schedule"   -> afterSetup + config.start_epoch + 2
             [] pc = "resume"     ->
                  afterSetup + 1 + Max0(config.start_epoch - lr_scheduler.last_epoch)
             [] pc = "epoch"      -> EpochCost * Max0(config.epochs - epoch) + 1
             [] pc = "batch"      ->
                  afterEpoch + 3 + IterationCost * Max0(num_batches - iteration)
             [] pc = "epoch_end"  -> afterEpoch + 2
             [] pc = "save_epoch" -> afterEpoch + 1
             [] OTHER             ->
                  afterEpoch + 3 + StepsLeftInIteration
                    + IterationCost * Max0(num_batches - iteration - 1)

C16_EtaFactorIsRemaining ==
  pc = "loss_log" => eta_factor = num_batches - (iteration + 1)

\* C17: no read of a running average finds its count at 0 (batches hold
\* BatchSize >= 1 images); where the averages are read (lines 95-105) each
\* accumulator holds the update of the iteration under way, one update per
\* completed iteration; and no accumulator's count ever decreases.
C17_NoEmptyRead ==
  /\ [](~read_empty)
  /\ [](pc \in {"loss_log", "metrics"} =>
          /\ accumulated_iteration_time.steps = model_params
          /\ accumulated_per_pixel_loss.steps = BatchSize * model_params
          /\ accumulated_feature_loss.steps = BatchSize * model_params
          /\ model_params >= iteration + 1)
  /\ [][/\ accumulated_per_pixel_loss'.steps >= accumulated_per_pixel_loss.steps
        /\ accumulated_feature_loss'.steps >= accumulated_feature_loss.steps
        /\ accumulated_iteration_time'.steps >= accumulated_iteration_time.steps]_vars

\* the first batch of a run: its three accumulators were updated, the
\* iteration time was read at line 95 and the two losses at line 99
C17_Witness ==
  /\ pc = "loss_log" /\ iteration = 0 /\ ~read_empty
  /\ Count(calls, "print raises TypeError") = 1
  /\ accumulated_per_pixel_loss.steps = BatchSize
  /\ accumulated_feature_loss.steps = BatchSize
  /\ accumulated_iteration_time.steps = 1
====
